---- MODULE Spec2Model ----
(***************************************************************************)
(* A model of the exFAT reader: the cluster reader (cluster.rs), the FAT   *)
(* chain iterator (fat.rs), the byte source helper (disk.rs), the file     *)
(* object (file.rs), the root opener (lib.rs), the directory listing       *)
(* (directory.rs), the image byte source (image.rs) and the timestamp      *)
(* decoder (timestamp.rs).                                                 *)
(*                                                                         *)
(* TLC's integers are 32 bits wide, so the 64-bit words of the program     *)
(* (u64, usize, i64) are modelled WordBits wide and the 32-bit FAT entries *)
(* U32Bits wide; the cluster geometry is scaled with them.  Arithmetic     *)
(* that the program performs with plain operators overflows exactly where  *)
(* the scaled word overflows: with overflow checks (a debug build) it      *)
(* panics, without them (a release build) it wraps.                        *)
(***************************************************************************)
EXTENDS Integers, Sequences, FiniteSets, TLC

VARIABLES
    overflow_checks,  \* the build: TRUE panics on overflow, FALSE wraps
    vol,              \* the opened volume: Params, Fat entries, byte source
    obj,              \* the File or ClustersReader under test
    last,             \* the last call on obj and what it returned
    loop,             \* the sequential read loop started at construction
    root,             \* Root::open: its position, inputs read and result
    dir,              \* Directory::open: the records, its position and result
    img,              \* the Image, its file and the calls in progress on it
    ts                \* a Timestamp and what date() and time() gave for it

vars == <<overflow_checks, vol, obj, last, loop, root, dir, img, ts>>

(* ------------------------------ bounds -------------------------------- *)

WordBits == 6
U32Bits == 5
MaxPartRead == 3

U64Mod == 2 ^ WordBits
U64Max == U64Mod - 1
I64Max == (2 ^ (WordBits - 1)) - 1
I64Min == 0 - (2 ^ (WordBits - 1))
U32Mod == 2 ^ U32Bits

Min(a, b) == IF a <= b THEN a ELSE b

None == [some |-> FALSE, v |-> 0]
Some(x) == [some |-> TRUE, v |-> x]
\* an absent Option<bool>
NoFlag == [some |-> FALSE, v |-> FALSE]

Ok(x) == [st |-> "ok", v |-> x, e |-> ""]
Err(kind) == [st |-> "err", v |-> 0, e |-> kind]
Panic(why) == [st |-> "panic", v |-> 0, e |-> why]

(* a + b and a - b on u64 written with the plain operators *)
AddU64(a, b) ==
    IF a + b <= U64Max THEN Ok(a + b)
    ELSE IF overflow_checks THEN Panic("attempt to add with overflow")
    ELSE Ok((a + b) % U64Mod)

SubU64(a, b) ==
    IF a >= b THEN Ok(a - b)
    ELSE IF overflow_checks THEN Panic("attempt to subtract with overflow")
    ELSE Ok((a - b) % U64Mod)

(* u64::checked_sub, u64::saturating_add, i64::unsigned_abs *)
CheckedSub(a, b) == IF a >= b THEN Some(a - b) ELSE None
SaturatingAdd(a, b) == IF a + b <= U64Max THEN a + b ELSE U64Max
UnsignedAbs(v) == IF v < 0 THEN 0 - v ELSE v

(* ------------------------------ volume -------------------------------- *)

BadCluster == U32Mod - 9
EndOfChain == U32Mod - 1
MediaEntry == U32Mod - 8

ParamsA ==
    [bytes_per_sector |-> 2, sectors_per_cluster |-> 2,
     cluster_heap_offset |-> 4, cluster_count |-> 6]

\* entries[0..7]: 2 -> 3 -> 5 -> 4 where 4 is marked bad; 6 -> 7 -> 6 is a
\* cycle
FatEntries ==
    <<MediaEntry, EndOfChain, 3, 5, BadCluster, 4, 7, 6>>

HeapEnd(p) ==
    (p.cluster_heap_offset + p.cluster_count * p.sectors_per_cluster)
        * p.bytes_per_sector

\* the whole image, and one cut short inside its last cluster but one
Volumes ==
    { [params |-> ParamsA, entries |-> FatEntries, disk_len |-> d] :
        d \in {HeapEnd(ParamsA), HeapEnd(ParamsA) - 6} }

\* the image's byte at a position: every position holds a different byte
DiskByte(p) == (7 * p + 3) % 256

cluster_size(p) == p.bytes_per_sector * p.sectors_per_cluster

cluster_offset(p, index) ==
    IF index < 2 \/ index - 2 >= p.cluster_count THEN None
    ELSE Some((p.cluster_heap_offset + (index - 2) * p.sectors_per_cluster)
                * p.bytes_per_sector)

(* ------------------------ byte source (disk.rs) ----------------------- *)

\* DiskPartition::read of the image: a positional read that may be short
\* and returns 0 at the end of the image
PartitionRead(offset, n) ==
    IF offset >= vol.disk_len THEN 0
    ELSE Min(Min(n, MaxPartRead), vol.disk_len - offset)

RECURSIVE read_exact_loop(_, _, _)
read_exact_loop(offset, n, acc) ==
    IF n = 0 THEN Ok(acc)
    ELSE LET got == PartitionRead(offset, n) IN
         IF got = 0 THEN Err("UnexpectedEof")
         ELSE IF offset + got > U64Max THEN Panic("unwrap on None")
         ELSE read_exact_loop(offset + got, n - got,
                  acc \o [i \in 1..got |-> DiskByte(offset + i - 1)])

\* DiskPartition::read_exact; io_fail: the partition's read returns an error
read_exact(offset, n, io_fail) ==
    IF n > 0 /\ io_fail THEN Err("Read") ELSE read_exact_loop(offset, n, <<>>)

(* --------------------------- FAT (fat.rs) ----------------------------- *)

\* ClusterChain::next: None, or the cluster yielded and the iterator's new next
ChainNext(entries, next) ==
    IF next < 2 \/ next >= Len(entries) \/ entries[next + 1] = BadCluster
    THEN None
    ELSE Some([item |-> next, next |-> entries[next + 1]])

\* get_cluster_chain(first).collect(): the iterator is followed until None.
\* Once it has yielded more clusters than the FAT has entries it is in a
\* cycle and never returns None: collect() does not return.
RECURSIVE collect_chain(_, _, _)
collect_chain(entries, next, acc) ==
    LET n == ChainNext(entries, next) IN
    IF ~n.some THEN [diverges |-> FALSE, chain |-> acc]
    ELSE IF Len(acc) >= Len(entries) THEN [diverges |-> TRUE, chain |-> acc]
    ELSE collect_chain(entries, n.v.next, Append(acc, n.v.item))

get_cluster_chain(entries, first) == collect_chain(entries, first, <<>>)

(* --------------------- cluster reader (cluster.rs) -------------------- *)

NoReader == [chain |-> <<>>, data_length |-> 0, offset |-> 0]

NewOk(chain, data_length) ==
    [st |-> "ok", e |-> "",
     rd |-> [chain |-> chain, data_length |-> data_length, offset |-> 0]]
NewFail(st, e) == [st |-> st, e |-> e, rd |-> NoReader]

\* the NoFatChain branch of ClustersReader::new
NewContiguous(first_cluster, data_length) ==
    IF ~(data_length.some /\ data_length.v > 0)
    THEN NewFail("err", "InvalidDataLength")
    ELSE
    LET cs == cluster_size(vol.params)
        sum == AddU64(data_length.v, cs)
        top == IF sum.st = "ok" THEN SubU64(sum.v, 1) ELSE sum
    IN  IF top.st # "ok" THEN NewFail("panic", top.e)
        ELSE LET count == top.v \div cs
                 last_cluster == AddU64(first_cluster, count)
             IN  IF last_cluster.st # "ok" THEN NewFail("panic", last_cluster.e)
                 ELSE NewOk([i \in 1..(last_cluster.v - first_cluster)
                                |-> first_cluster + i - 1],
                            data_length.v)

\* the FAT branch of ClustersReader::new
NewFromFat(first_cluster, data_length) ==
    LET cs == cluster_size(vol.params)
        got == get_cluster_chain(vol.entries, first_cluster)
    IN  IF got.diverges THEN NewFail("hang", "collect never returns")
        ELSE IF Len(got.chain) = 0 THEN NewFail("err", "InvalidFirstCluster")
        ELSE IF data_length.some
             THEN IF data_length.v > cs * Len(got.chain)
                  THEN NewFail("err", "InvalidDataLength")
                  ELSE NewOk(got.chain, data_length.v)
             ELSE NewOk(got.chain,
                        vol.params.bytes_per_sector
                          * (vol.params.sectors_per_cluster * Len(got.chain)))

\* ClustersReader::new(exfat, first_cluster, data_length, no_fat_chain)
ClustersReader_new(first_cluster, data_length, no_fat_chain) ==
    IF first_cluster < 2 THEN NewFail("err", "InvalidFirstCluster")
    ELSE IF no_fat_chain.some /\ no_fat_chain.v
         THEN NewContiguous(first_cluster, data_length)
         ELSE NewFromFat(first_cluster, data_length)

Start(v) == [whence |-> "Start", v |-> v]
End(v) == [whence |-> "End", v |-> v]
Current(v) == [whence |-> "Current", v |-> v]

\* SeekFrom::Start(v) in <ClustersReader as Seek>::seek
SeekStart_Unclamped(rd, v) == v
SeekStart(rd, v) == Min(v, rd.data_length)

\* a negative v in <ClustersReader as Seek>::seek, relative to from
SeekBackward_ClampsAtZero(from, v) ==
    Ok(IF from >= UnsignedAbs(v) THEN from - UnsignedAbs(v) ELSE 0)
SeekBackward(from, v) ==
    LET r == CheckedSub(from, UnsignedAbs(v)) IN
    IF r.some THEN Ok(r.v) ELSE Err("InvalidInput")

\* the addition of Current(v), v >= 0, in <ClustersReader as Seek>::seek
SeekCurrentForward(rd, v) ==
    LET sum == AddU64(rd.offset, v) IN
    IF sum.st = "ok" THEN Ok(Min(sum.v, rd.data_length)) ELSE sum

\* <ClustersReader as Seek>::seek: the new offset, or the error
ClustersReader_seek_target(rd, pos) ==
    CASE pos.whence = "Start" -> Ok(SeekStart(rd, pos.v))
      [] pos.whence = "End" ->
            IF pos.v >= 0 THEN Ok(rd.data_length)
            ELSE SeekBackward(rd.data_length, pos.v)
      [] pos.whence = "Current" ->
            IF pos.v >= 0 THEN SeekCurrentForward(rd, pos.v)
            ELSE SeekBackward(rd.offset, pos.v)

\* what a call leaves behind: its result, the reader, the byte source reads
Outcome(res, rd, bytes, reads) ==
    [st |-> res.st, ret |-> res.v, e |-> res.e, rd |-> rd,
     bytes |-> bytes, reads |-> reads]

ClustersReader_seek(rd, pos) ==
    LET t == ClustersReader_seek_target(rd, pos) IN
    IF t.st = "ok" THEN Outcome(t, [rd EXCEPT !.offset = t.v], <<>>, <<>>)
    ELSE Outcome(t, rd, <<>>, <<>>)

ClustersReader_rewind(rd) == Outcome(Ok(0), [rd EXCEPT !.offset = 0], <<>>, <<>>)

ClustersReader_stream_position(rd) == Outcome(Ok(rd.offset), rd, <<>>, <<>>)

\* the physical position of the reader's offset
ReadPosition_ClusterStart(p, cluster, offset) == cluster_offset(p, cluster)
ReadPosition(p, cluster, offset) ==
    LET o == cluster_offset(p, cluster) IN
    IF o.some THEN Some(o.v + (offset % cluster_size(p))) ELSE None

\* the number of bytes one read delivers
ReadAmount(rd, buf_len) ==
    LET cs == cluster_size(vol.params)
        cluster_remaining == cs - (rd.offset % cs)
        remaining == Min(cluster_remaining, rd.data_length - rd.offset)
    IN  Min(buf_len, remaining)

\* ClustersReader::cluster: the cluster the offset is in
ClustersReader_cluster(rd) ==
    LET index == rd.offset \div cluster_size(vol.params) IN
    IF index >= Len(rd.chain)
    THEN Outcome(Panic("index out of bounds"), rd, <<>>, <<>>)
    ELSE Outcome(Ok(rd.chain[index + 1]), rd, <<>>, <<>>)

\* the early returns of read with an error: the reader is left as it was
ReadFailed_Advances(rd, res, reads) ==
    Outcome(res, [rd EXCEPT !.offset = rd.offset + 1], <<>>, reads)
ReadFailed(rd, res, reads) == Outcome(res, rd, <<>>, reads)

\* <ClustersReader as Read>::read with a buffer of buf_len bytes
ClustersReader_read(rd, buf_len, io_fail) ==
    IF buf_len = 0 \/ rd.offset = rd.data_length
    THEN Outcome(Ok(0), rd, <<>>, <<>>)
    ELSE
    LET cs == cluster_size(vol.params)
        index == rd.offset \div cs
    IN  IF index >= Len(rd.chain)
        THEN Outcome(Panic("index out of bounds"), rd, <<>>, <<>>)
        ELSE
        LET cluster == rd.chain[index + 1]
            at == ReadPosition(vol.params, cluster, rd.offset)
            amount == ReadAmount(rd, buf_len)
        IN  IF ~at.some
            THEN ReadFailed(rd, Err("ClusterUnavailable"), <<>>)
            ELSE
            LET got == read_exact(at.v, amount, io_fail)
                call == <<[at |-> at.v, n |-> amount]>>
            IN  IF got.st # "ok" THEN ReadFailed(rd, got, call)
                ELSE Outcome(Ok(amount),
                             [rd EXCEPT !.offset = rd.offset + amount],
                             got.v, call)

\* the inherent helpers of ClustersReader that File calls: data_length(),
\* seek(off) -> bool, rewind(), stream_position()
Reader_data_length(rd) == rd.data_length
Reader_stream_position(rd) == rd.offset
Reader_seek_to(rd, off) ==
    IF off > rd.data_length THEN [ok |-> FALSE, rd |-> rd]
    ELSE [ok |-> TRUE, rd |-> [rd EXCEPT !.offset = off]]
Reader_rewind(rd) == [rd EXCEPT !.offset = 0]

(* ---------------------------- file (file.rs) -------------------------- *)

\* the StreamEntry values a directory parse hands to File::new:
\* valid_data_length <= data_length, and an unallocated stream
\* (first_cluster == 0) has data_length == 0 and no NoFatChain flag
StreamLengths == {0, 1, 5, 9, 12, U64Max}
StreamEntries ==
    { s \in [first_cluster : {0, 1, 2, 4, 6},
             valid_data_length : StreamLengths,
             data_length : StreamLengths,
             no_fat_chain : BOOLEAN] :
        /\ s.valid_data_length <= s.data_length
        /\ s.data_length \in {s.valid_data_length, 12}
        /\ s.first_cluster = 0 => (s.data_length = 0 /\ ~s.no_fat_chain) }

NoFile == [kind |-> "None", len |-> 0, rd |-> NoReader]

\* the stream File::new gives the empty reader
IsEmptyStream_Never(stream) == FALSE
IsEmptyStream(stream) == stream.first_cluster = 0

\* the length File::new sizes its reader with (let len = ...)
File_len_DataLength(stream) == stream.data_length
File_len(stream) == stream.valid_data_length

\* File::new: the reader is Empty for first_cluster == 0, else a cluster
\* reader sized to valid_data_length; a reader error is wrapped in
\* CreateClustersReaderFailed(first_cluster, len, cause)
File_new(stream) ==
    LET len == File_len(stream) IN
    IF IsEmptyStream(stream)
    THEN [st |-> "ok", e |-> "", cause |-> "",
          file |-> [kind |-> "Empty", len |-> len, rd |-> NoReader]]
    ELSE LET r == ClustersReader_new(stream.first_cluster, Some(len),
                                     Some(stream.no_fat_chain))
         IN  IF r.st = "ok"
             THEN [st |-> "ok", e |-> "", cause |-> "",
                   file |-> [kind |-> "Cluster", len |-> len, rd |-> r.rd]]
             ELSE IF r.st = "err"
             THEN [st |-> "err", e |-> "CreateClustersReaderFailed",
                   cause |-> r.e, file |-> NoFile]
             ELSE [st |-> r.st, e |-> r.e, cause |-> "", file |-> NoFile]

\* SeekFrom::Start(v) in <File as Seek>::seek
File_seek_start_Unclamped(rd, v) == v
File_seek_start(rd, v) == Min(v, Reader_data_length(rd))

\* a negative v in <File as Seek>::seek, relative to from
File_seek_backward(from, v) ==
    LET r == CheckedSub(from, UnsignedAbs(v)) IN
    IF r.some THEN Ok(r.v) ELSE Err("InvalidInput")

\* the absolute offset File::seek computes for a cluster reader
File_seek_target(rd, pos) ==
    CASE pos.whence = "Start" -> Ok(File_seek_start(rd, pos.v))
      [] pos.whence = "End" ->
            IF pos.v >= 0 THEN Ok(Reader_data_length(rd))
            ELSE File_seek_backward(Reader_data_length(rd), pos.v)
      [] pos.whence = "Current" ->
            IF pos.v >= 0
            THEN Ok(Min(SaturatingAdd(Reader_stream_position(rd), pos.v),
                        Reader_data_length(rd)))
            ELSE File_seek_backward(Reader_stream_position(rd), pos.v)

\* std::io::Empty: every seek reports 0, every read returns 0
Empty_seek(pos) == Ok(0)
Empty_read(buf_len) == Ok(0)

FileOutcome(res, f, bytes, reads) ==
    [st |-> res.st, ret |-> res.v, e |-> res.e, file |-> f,
     bytes |-> bytes, reads |-> reads]

Lift(f, out) ==
    [st |-> out.st, ret |-> out.ret, e |-> out.e,
     file |-> [f EXCEPT !.rd = out.rd], bytes |-> out.bytes,
     reads |-> out.reads]

\* <File as Seek>::seek
File_seek(f, pos) ==
    IF f.kind = "Empty" THEN FileOutcome(Empty_seek(pos), f, <<>>, <<>>)
    ELSE LET o == File_seek_target(f.rd, pos) IN
         IF o.st # "ok" THEN FileOutcome(o, f, <<>>, <<>>)
         ELSE LET moved == Reader_seek_to(f.rd, o.v) IN
              IF ~moved.ok
              THEN FileOutcome(Panic("assertion failed"), f, <<>>, <<>>)
              ELSE FileOutcome(o, [f EXCEPT !.rd = moved.rd], <<>>, <<>>)

\* <File as Seek>::rewind
File_rewind(f) ==
    IF f.kind = "Empty" THEN FileOutcome(Ok(0), f, <<>>, <<>>)
    ELSE FileOutcome(Ok(0), [f EXCEPT !.rd = Reader_rewind(f.rd)], <<>>, <<>>)

\* <File as Seek>::stream_position
File_stream_position(f) ==
    IF f.kind = "Empty" THEN FileOutcome(Ok(0), f, <<>>, <<>>)
    ELSE FileOutcome(Ok(Reader_stream_position(f.rd)), f, <<>>, <<>>)

\* <File as Read>::read
File_read(f, buf_len, io_fail) ==
    IF f.kind = "Empty" THEN FileOutcome(Empty_read(buf_len), f, <<>>, <<>>)
    ELSE Lift(f, ClustersReader_read(f.rd, buf_len, io_fail))

(* ------------------------- root opener (lib.rs) ----------------------- *)

MaxRootEntries == 4

NoBoot ==
    [file_system_name |-> "", must_be_zero |-> 0,
     bytes_per_sector_shift |-> 0, sectors_per_cluster_shift |-> 0,
     number_of_fats |-> 0, volume_flags |-> 0]

\* the boot sectors an image may hold: bytes [3..11], a byte of [11..64]
\* (0 when all are zero), and the bytes at 106, 108, 109 and 110
BootSectors ==
    [file_system_name : {"EXFAT   ", "NTFS    "},
     must_be_zero : {0, 1},
     bytes_per_sector_shift : {8, 9, 12, 13},
     sectors_per_cluster_shift : {0, 13, 14, 16, 17},
     number_of_fats : {0, 1, 2, 3},
     volume_flags : {0, 1, 2, 3}]

\* VolumeFlags::active_fat: bit 0
active_fat(volume_flags) == volume_flags % 2

\* the range of BytesPerSectorShift
ValidBytesPerSectorShift_UpTo13(v) == 9 <= v /\ v <= 13
ValidBytesPerSectorShift(v) == 9 <= v /\ v <= 12

\* the checks of Root::open on the boot sector, in the order the code makes
\* them: "" when all pass, else the error of the first that fails
BootCheck(boot) ==
    IF boot.file_system_name # "EXFAT   " \/ boot.must_be_zero # 0
    THEN "NotExFat"
    ELSE IF ~ValidBytesPerSectorShift(boot.bytes_per_sector_shift)
    THEN "InvalidBytesPerSectorShift"
    ELSE IF ~(boot.sectors_per_cluster_shift
                <= 25 - boot.bytes_per_sector_shift)
    THEN "InvalidSectorsPerClusterShift"
    ELSE IF ~(boot.number_of_fats = 1 \/ boot.number_of_fats = 2)
    THEN "InvalidNumberOfFats"
    ELSE IF ~(active_fat(boot.volume_flags) = 0 \/ boot.number_of_fats = 2)
    THEN "InvalidNumberOfFats"
    ELSE ""

\* the directory records the root's entry reader may deliver; kind names
\* the record's type byte: in-use bit, category, importance and type code
PrimaryKinds ==
    {"AllocationBitmap", "UpcaseTable", "VolumeLabel", "FileEntry"}
RootStreams ==
    { s \in StreamEntries :
        /\ s.first_cluster \in {0, 2}
        /\ s.valid_data_length \in {0, 5}
        /\ s.data_length \in {0, 5, 12} }
RootRecords ==
    {[kind |-> "Unused", byte1 |-> 0, alloc_ok |-> TRUE]}
      \cup {[kind |-> "Secondary", byte1 |-> 0, alloc_ok |-> TRUE]}
      \cup {[kind |-> "BenignPrimary", byte1 |-> 0, alloc_ok |-> TRUE]}
      \cup {[kind |-> "OtherCritical", byte1 |-> 0, alloc_ok |-> TRUE]}
      \cup [kind : {"AllocationBitmap"}, byte1 : {0, 1, 2},
            alloc_ok : BOOLEAN]
      \cup [kind : {"UpcaseTable"}, byte1 : {0}, alloc_ok : BOOLEAN]
      \cup [kind : {"VolumeLabel"}, byte1 : {10, 12}, alloc_ok : {TRUE}]
      \cup [kind : {"FileEntry"}, byte1 : {0, 1, 2}, alloc_ok : {TRUE}]

RootDone(r, result) == [r EXCEPT !.pc = "done", !.result = result]

\* Root::open up to the decision to load the FAT: the boot sector is read
\* and checked
RootBoot(r, readable, boot) ==
    LET read == [r EXCEPT !.reads = Append(r.reads, "boot")] IN
    IF ~readable THEN RootDone(read, "ReadMainBootFailed")
    ELSE LET e == BootCheck(boot)
             checked == [read EXCEPT !.boot = boot]
         IN  IF e # "" THEN RootDone(checked, e)
             ELSE [checked EXCEPT !.pc = "fat"]

\* Root::open from Fat::load to the entries reader of the root directory
RootFat(r, fat_readable, root_cluster) ==
    LET read == [r EXCEPT !.reads = Append(r.reads, "fat"),
                          !.root_cluster = root_cluster]
    IN  IF ~fat_readable THEN RootDone(read, "ReadFatRegionFailed")
        ELSE LET rd == ClustersReader_new(root_cluster, None, None) IN
             CASE rd.st = "ok" -> [read EXCEPT !.pc = "entries"]
               [] rd.st = "err" -> RootDone(read, "CreateClustersReaderFailed")
               [] OTHER -> RootDone(read, rd.st)

\* the check of the allocation bitmap count after the loop
BitmapCountOk(number_of_fats, allocation_bitmaps) ==
    IF number_of_fats = 2 THEN allocation_bitmaps[2]
    ELSE allocation_bitmaps[1]

\* Root::open after the loop over the root directory
RootFinish(r) ==
    IF ~BitmapCountOk(r.boot.number_of_fats, r.allocation_bitmaps)
    THEN RootDone(r, "NoAllocationBitmap")
    ELSE IF ~r.upcase_table THEN RootDone(r, "NoUpcaseTable")
    ELSE RootDone(r, "Ok")

\* the AllocationBitmap arm of the loop
RootBitmap(r, rec) ==
    IF r.allocation_bitmaps[2] THEN RootDone(r, "TooManyAllocationBitmap")
    ELSE LET index == IF r.allocation_bitmaps[1] THEN 1 ELSE 0 IN
         IF rec.byte1 % 2 # index THEN RootDone(r, "WrongAllocationBitmap")
         ELSE IF ~rec.alloc_ok
         THEN RootDone(r, "ReadClusterAllocationFailed")
         ELSE [r EXCEPT !.allocation_bitmaps[index + 1] = TRUE]

\* the FileEntry arm of the loop: byte1 0 stands for an entry set that does
\* not load, 1 for a directory, 2 for a file with the given stream
RootFile(r, rec, stream) ==
    IF rec.byte1 = 0 THEN RootDone(r, "LoadFileEntryFailed")
    ELSE IF rec.byte1 = 1
    THEN [r EXCEPT !.items = Append(r.items, "Directory")]
    ELSE LET f == File_new(stream) IN
         CASE f.st = "ok" -> [r EXCEPT !.items = Append(r.items, "File")]
           [] f.st = "err" -> RootDone(r, "CreateFileObjectFailed")
           [] OTHER -> RootDone(r, f.st)

\* one turn of the loop of Root::open over the root directory's records
RootEntry(r0, read_ok, rec, stream) ==
    LET r == [r0 EXCEPT
                !.reads = IF r0.entries_read = 0 THEN Append(r0.reads, "root")
                          ELSE r0.reads,
                !.entries_read = r0.entries_read + 1,
                !.bitmaps_seen =
                    IF read_ok /\ rec.kind = "AllocationBitmap"
                    THEN Append(r0.bitmaps_seen, rec.byte1 % 2)
                    ELSE r0.bitmaps_seen]
    IN  IF ~read_ok THEN RootDone(r, "ReadEntryFailed")
        ELSE IF rec.kind = "Unused" THEN RootFinish(r)
        ELSE IF rec.kind = "Secondary" THEN RootDone(r, "NotPrimaryEntry")
        ELSE CASE rec.kind = "AllocationBitmap" -> RootBitmap(r, rec)
               [] rec.kind = "UpcaseTable" ->
                    IF r.upcase_table THEN RootDone(r, "MultipleUpcaseTable")
                    ELSE IF ~rec.alloc_ok
                    THEN RootDone(r, "ReadClusterAllocationFailed")
                    ELSE [r EXCEPT !.upcase_table = TRUE]
               [] rec.kind = "VolumeLabel" ->
                    IF r.volume_label THEN RootDone(r, "MultipleVolumeLabel")
                    ELSE IF rec.byte1 > 11
                    THEN RootDone(r, "InvalidVolumeLabel")
                    ELSE [r EXCEPT !.volume_label = TRUE]
               [] rec.kind = "FileEntry" -> RootFile(r, rec, stream)
               [] OTHER -> RootDone(r, "UnknownEntry")

(* ----------------------- directory (directory.rs) --------------------- *)

MaxDirEntries == 3

\* the type byte of a record and, for a file entry, what its entry set
\* holds: "bad" when FileEntry::load fails, else a directory or a file
DirTypes ==
    {[in_use |-> FALSE, category |-> "primary", importance |-> "critical",
      type_code |-> 5],
     [in_use |-> FALSE, category |-> "secondary", importance |-> "critical",
      type_code |-> 0],
     [in_use |-> TRUE, category |-> "secondary", importance |-> "critical",
      type_code |-> 0],
     [in_use |-> TRUE, category |-> "primary", importance |-> "critical",
      type_code |-> 1],
     [in_use |-> TRUE, category |-> "primary", importance |-> "benign",
      type_code |-> 5],
     [in_use |-> TRUE, category |-> "primary", importance |-> "critical",
      type_code |-> 5]}

\* the streams of the files listed in a directory
DirFileStreams ==
    { s \in StreamEntries :
        /\ s.first_cluster \in {0, 1, 2}
        /\ s.valid_data_length \in {0, 5}
        /\ s.no_fat_chain => (s.first_cluster = 2 /\ s.data_length = 12)
        /\ ~s.no_fat_chain => s.data_length = s.valid_data_length }

NoStream ==
    [first_cluster |-> 0, valid_data_length |-> 0, data_length |-> 0,
     no_fat_chain |-> FALSE]

DirRecords ==
    { [ty |-> t, set |-> e, stream |-> st] :
        t \in DirTypes, e \in {"bad", "dir", "file"},
        st \in DirFileStreams \cup {NoStream} }

\* the records a directory may hold where a primary is expected: only a
\* file's entry set carries a stream that matters
DirContentRecords ==
    { r \in DirRecords :
        IF r.ty.in_use /\ r.ty.category = "primary"
              /\ r.ty.importance = "critical" /\ r.ty.type_code = 5
              /\ r.set = "file"
        THEN r.stream \in DirFileStreams
        ELSE r.stream = NoStream /\ (r.set = "bad" => r.ty.type_code = 5) }

\* the allocations of the directory itself
DirOwnStreams ==
    { s \in StreamEntries :
        /\ s.first_cluster \in {1, 2}
        /\ s.data_length \in {5, 12}
        /\ s.valid_data_length = s.data_length }

DirIdle ==
    [pc |-> "idle", records |-> <<>>, examined |-> 0, items |-> <<>>,
     result |-> "", err_index |-> 0, has_listing |-> FALSE,
     listing |-> <<>>]

\* EntryType::is_regular, and the test of Directory::open for a file entry
is_regular(ty) == ty.in_use

IsFileEntryType_AnyImportance(ty) == ty.type_code = 5
IsFileEntryType(ty) == ty.importance = "critical" /\ ty.type_code = 5

DirFail(d, kind, index) ==
    [d EXCEPT !.pc = "done", !.result = kind, !.err_index = index]

DirReturn(d) ==
    [d EXCEPT !.pc = "done", !.result = "Ok", !.has_listing = TRUE,
              !.listing = d.items]

\* Directory::open up to its loop: the reader over the directory's stream
DirReader(d, stream, records) ==
    LET rd == ClustersReader_new(stream.first_cluster,
                                 Some(stream.data_length),
                                 Some(stream.no_fat_chain))
        given == [d EXCEPT !.records = records]
    IN  CASE rd.st = "ok" -> [given EXCEPT !.pc = "entries"]
          [] rd.st = "err" -> DirFail(given, "CreateClustersReaderFailed", 0)
          [] OTHER -> DirFail(given, rd.st, 0)

\* the item pushed for a file entry whose entry set was loaded
DirItem(d, rec, index) ==
    IF rec.set = "dir" THEN [d EXCEPT !.items = Append(d.items, "Directory")]
    ELSE LET f == File_new(rec.stream) IN
         CASE f.st = "ok" -> [d EXCEPT !.items = Append(d.items, "File")]
           [] f.st = "err" -> DirFail(d, "CreateFileObjectFailed", index)
           [] OTHER -> DirFail(d, f.st, index)

\* one turn of the loop of Directory::open; reading past the last record of
\* the stream fails like any other read
DirEntry(d0, read_ok) ==
    IF ~read_ok \/ d0.examined >= Len(d0.records)
    THEN DirFail(d0, "ReadEntryFailed", d0.examined)
    ELSE LET index == d0.examined
             rec == d0.records[index + 1]
             d == [d0 EXCEPT !.examined = index + 1]
         IN  IF ~is_regular(rec.ty) THEN DirReturn(d)
             ELSE IF rec.ty.category # "primary"
             THEN DirFail(d, "NotPrimaryEntry", index)
             ELSE IF ~IsFileEntryType(rec.ty)
             THEN DirFail(d, "NotFileEntry", index)
             ELSE IF rec.set = "bad"
             THEN DirFail(d, "LoadFileEntryFailed", index)
             ELSE DirItem(d, rec, index)

(* --------------------------- image (image.rs) ------------------------- *)

MaxImageCalls == 2
ImageLen == 6

Threads == {1, 2}

\* the file behind the Image: a Read + Seek whose seek(Start(o)) lands at o,
\* or at the end of the file when it is one that clamps
NoImageCall ==
    [pc |-> "idle", offset |-> 0, buf_len |-> 0, st |-> "", ret |-> 0,
     at |-> 0]

ImgIdle ==
    [pc |-> "closed", pos |-> 0, clamps |-> FALSE, cached |-> 0,
     holder |-> 0, calls |-> [t \in Threads |-> NoImageCall], made |-> 0]

ImageOffsets == {0, 2, ImageLen, ImageLen + 3}
ImageBufLens == {0, 1, 4}

\* F::seek(SeekFrom::Start(offset)) when it succeeds: the position it
\* reports, which is the one the file is left at
FileSeekStart(i, offset) == IF i.clamps THEN Min(offset, ImageLen) ELSE offset

\* the bytes F::read may return at a position for a buffer: none for an
\* empty buffer or at the end of the file, else at least one
FileReadCounts(pos, buf_len) ==
    IF buf_len = 0 \/ pos >= ImageLen THEN {0}
    ELSE 1..Min(buf_len, ImageLen - pos)

\* Image::open: the position of the file is cached next to it
ImageOpened(i, position_ok) ==
    IF position_ok THEN [i EXCEPT !.pc = "open", !.cached = i.pos]
    ELSE [i EXCEPT !.pc = "failed"]

\* Mutex::lock: taken only when no thread holds it
LockFree(i) == i.holder = 0

ImageLocked(i, t) ==
    [i EXCEPT !.holder = t, !.calls[t].pc = "seek"]

\* the end of a call: the guard is dropped
ImageReturned(i, t, st, ret, at) ==
    [i EXCEPT !.holder = IF i.holder = t THEN 0 ELSE i.holder,
              !.calls[t] = [i.calls[t] EXCEPT !.pc = "idle", !.st = st,
                                              !.ret = ret, !.at = at]]

\* Image::read from the lock to the read of the file; a seek or a read
\* that fails leaves the file where it was
ImageSought(i, t, seek_ok) ==
    LET offset == i.calls[t].offset IN
    IF offset = i.cached THEN [i EXCEPT !.calls[t].pc = "read"]
    ELSE IF ~seek_ok THEN ImageReturned(i, t, "SeekFailed", 0, i.pos)
    ELSE LET v == FileSeekStart(i, offset)
             sought == [i EXCEPT !.pos = v]
         IN  IF v # offset THEN ImageReturned(sought, t, "ok", 0, v)
             ELSE [sought EXCEPT !.cached = offset, !.calls[t].pc = "read"]

\* Image::read from the read of the file to its return
ImageReadDone(i, t, read_ok, n) ==
    IF ~read_ok THEN ImageReturned(i, t, "ReadFailed", 0, i.pos)
    ELSE LET sum == AddU64(i.cached, n) IN
         IF sum.st = "panic"
         THEN ImageReturned([i EXCEPT !.pos = i.pos + n], t, "panic", 0, i.pos)
         ELSE ImageReturned([i EXCEPT !.pos = i.pos + n, !.cached = sum.v],
                            t, "ok", n, i.pos)

(* ------------------------ timestamp (timestamp.rs) -------------------- *)

U8Mod == 256

\* a + b and a * b on u8 written with the plain operators
AddU8(a, b) ==
    IF a + b < U8Mod THEN Ok(a + b)
    ELSE IF overflow_checks THEN Panic("attempt to add with overflow")
    ELSE Ok((a + b) % U8Mod)

MulU8(a, b) ==
    IF a * b < U8Mod THEN Ok(a * b)
    ELSE IF overflow_checks THEN Panic("attempt to multiply with overflow")
    ELSE Ok((a * b) % U8Mod)

\* a u32 timestamp is held as its two 16-bit halves; (timestamp >> shift)
\* & mask for a mask of width bits that lies within one half
ShiftMask(timestamp, shift, width) ==
    IF shift >= 16 THEN (timestamp.hi \div (2 ^ (shift - 16))) % (2 ^ width)
    ELSE (timestamp.lo \div (2 ^ shift)) % (2 ^ width)

TimestampHighHalves == {0, 1, 31, 33, 480, 512, 65024, 65535}
TimestampLowHalves == {0, 1, 29, 30, 31, 2016, 63488, 65535}
MsIncrements == {0, 199, 255}

Timestamp_date_DayFromBit17(t) ==
    [day |-> ShiftMask(t.timestamp, 17, 5),
     month |-> ShiftMask(t.timestamp, 21, 4),
     year |-> 1980 + ShiftMask(t.timestamp, 25, 7)]

Timestamp_date(t) ==
    [day |-> ShiftMask(t.timestamp, 16, 5),
     month |-> ShiftMask(t.timestamp, 21, 4),
     year |-> 1980 + ShiftMask(t.timestamp, 25, 7)]

Timestamp_time(t) ==
    LET doubled == MulU8(ShiftMask(t.timestamp, 0, 5), 2)
        second == IF doubled.st = "panic" THEN doubled
                  ELSE AddU8((t.ms_increment \div 1000) % U8Mod, doubled.v)
    IN  [st |-> second.st,
         second |-> second.v,
         minute |-> ShiftMask(t.timestamp, 5, 6),
         hour |-> ShiftMask(t.timestamp, 11, 5)]

NoDate == [day |-> 0, month |-> 0, year |-> 0]
NoTime == [st |-> "", second |-> 0, minute |-> 0, hour |-> 0]

TsIdle ==
    [timestamp |-> [hi |-> 0, lo |-> 0], ms_increment |-> 0,
     date_done |-> FALSE, date |-> NoDate, time_done |-> FALSE,
     time |-> NoTime]

(* --------------------------- the state machine ------------------------ *)

NoPos == [whence |-> "None", v |-> 0]
NoCall ==
    [op |-> "none", pos |-> NoPos, buf_len |-> 0,
     st |-> "ok", ret |-> 0, e |-> "", pre |-> 0, bytes |-> <<>>,
     reads |-> <<>>]
NoObject ==
    [st |-> "none", made_by |-> "", file |-> NoFile, first_cluster |-> 0,
     data_length |-> None, no_fat_chain |-> NoFlag, L0 |-> 0]
NoLoop == [st |-> "off", total |-> 0]

RootIdle ==
    [pc |-> "idle", boot |-> NoBoot, reads |-> <<>>, root_cluster |-> 0,
     allocation_bitmaps |-> <<FALSE, FALSE>>, upcase_table |-> FALSE,
     volume_label |-> FALSE, items |-> <<>>, bitmaps_seen |-> <<>>,
     entries_read |-> 0, result |-> ""]

\* the arguments the calls are made with
ReaderFirstClusters == {1, 2, 4, 5, 6}
ReaderLengths ==
    {None} \cup
    { Some(n) : n \in {0, 5, 12, 13, U64Mod - cluster_size(ParamsA),
                       U64Max} }
ReaderFlags == {NoFlag, Some(FALSE), Some(TRUE)}
StartArgs == {0, 3, 9, (U64Mod \div 2) + 1, U64Max}
SignedArgs == {I64Min, 0 - 6, 0, 3, I64Max}
SeekArgs ==
    { Start(x) : x \in StartArgs }
        \cup { End(v) : v \in SignedArgs }
        \cup { Current(v) : v \in SignedArgs }
BufLens == {0, 1, 3, 9}

Init ==
    /\ overflow_checks \in BOOLEAN
    /\ vol \in Volumes
    /\ obj = NoObject
    /\ last = NoCall
    /\ loop = NoLoop
    /\ root = RootIdle
    /\ dir = DirIdle
    /\ img = ImgIdle
    /\ ts = TsIdle

\* what a constructor leaves behind
Constructed(made_by, r, f, first_cluster, data_length, no_fat_chain) ==
    /\ obj' = [st |-> CASE r.st = "ok" -> "ready"
                        [] r.st = "err" -> "failed"
                        [] r.st = "panic" -> "panicked"
                        [] OTHER -> "hung",
               made_by |-> made_by, file |-> f, first_cluster |-> first_cluster,
               data_length |-> data_length, no_fat_chain |-> no_fat_chain,
               L0 |-> f.rd.data_length]
    /\ last' = [NoCall EXCEPT !.op = "new", !.st = r.st, !.e = r.e]
    /\ loop' = [st |-> IF r.st = "ok" THEN "run" ELSE "off", total |-> 0]
    /\ UNCHANGED <<overflow_checks, vol, root, dir, img, ts>>

NewFile ==
    /\ obj.st = "none"
    /\ \E stream \in StreamEntries :
          LET r == File_new(stream) IN
          Constructed("File::new", r, r.file, stream.first_cluster,
                      Some(File_len(stream)),
                      Some(stream.no_fat_chain))

NewReader ==
    /\ obj.st = "none"
    /\ \E first_cluster \in ReaderFirstClusters, data_length \in ReaderLengths,
          no_fat_chain \in ReaderFlags :
          LET r == ClustersReader_new(first_cluster, data_length, no_fat_chain)
          IN  Constructed("ClustersReader::new", r,
                          [kind |-> "Reader", len |-> 0, rd |-> r.rd],
                          first_cluster, data_length, no_fat_chain)

\* the read loop: calls of read with a non-empty buffer, from construction
\* until read returns 0, fails or panics; loop records how it ended in the
\* state that follows its last read
LoopAfter(op, buf_len, out) ==
    IF loop.st # "run" THEN NoLoop
    ELSE IF op # "read" \/ buf_len = 0 THEN NoLoop
    ELSE CASE out.st = "panic" -> [loop EXCEPT !.st = "panic"]
           [] out.st = "err" -> [loop EXCEPT !.st = "err"]
           [] out.st = "ok" /\ out.ret = 0 -> [loop EXCEPT !.st = "eof"]
           [] OTHER -> [loop EXCEPT !.total = loop.total + out.ret]

\* what a call on the object leaves behind
Called(op, pos, buf_len, out) ==
    /\ obj' = [obj EXCEPT !.st = IF out.st = "panic" THEN "panicked" ELSE "ready",
                          !.file = out.file]
    /\ last' = [op |-> op, pos |-> pos, buf_len |-> buf_len,
                st |-> out.st, ret |-> out.ret,
                e |-> out.e, pre |-> obj.file.rd.offset, bytes |-> out.bytes,
                reads |-> out.reads]
    /\ loop' = LoopAfter(op, buf_len, out)
    /\ UNCHANGED <<overflow_checks, vol, root, dir, img, ts>>

IsFile == obj.st = "ready" /\ obj.file.kind \in {"Empty", "Cluster"}
IsReader == obj.st = "ready" /\ obj.file.kind = "Reader"

FileSeek ==
    /\ IsFile
    /\ \E pos \in SeekArgs :
          Called("seek", pos, 0, File_seek(obj.file, pos))

FileRewind ==
    /\ IsFile
    /\ Called("rewind", NoPos, 0, File_rewind(obj.file))

FileStreamPosition ==
    /\ IsFile
    /\ Called("stream_position", NoPos, 0,
              File_stream_position(obj.file))

FileRead ==
    /\ IsFile
    /\ \E buf_len \in BufLens, io_fail \in BOOLEAN :
          Called("read", NoPos, buf_len,
                 File_read(obj.file, buf_len, io_fail))

ReaderSeek ==
    /\ IsReader
    /\ \E pos \in SeekArgs :
          Called("seek", pos, 0,
                 Lift(obj.file, ClustersReader_seek(obj.file.rd, pos)))

ReaderRewind ==
    /\ IsReader
    /\ Called("rewind", NoPos, 0,
              Lift(obj.file, ClustersReader_rewind(obj.file.rd)))

ReaderStreamPosition ==
    /\ IsReader
    /\ Called("stream_position", NoPos, 0,
              Lift(obj.file, ClustersReader_stream_position(obj.file.rd)))

ReaderRead ==
    /\ IsReader
    /\ \E buf_len \in BufLens, io_fail \in BOOLEAN :
          Called("read", NoPos, buf_len,
                 Lift(obj.file,
                      ClustersReader_read(obj.file.rd, buf_len, io_fail)))

ReaderCluster ==
    /\ IsReader
    /\ Called("cluster", NoPos, 0,
              Lift(obj.file, ClustersReader_cluster(obj.file.rd)))

Next ==
    \/ NewFile
    \/ NewReader
    \/ FileSeek
    \/ FileRewind
    \/ FileStreamPosition
    \/ FileRead
    \/ ReaderSeek
    \/ ReaderRewind
    \/ ReaderStreamPosition
    \/ ReaderRead
    \/ ReaderCluster

Spec == Init /\ [][Next]_vars

\* Root::open, in three steps: the boot sector, the FAT and the root
\* directory's reader, then one record of the root directory at a time
RootOpenBoot ==
    /\ root.pc = "start"
    /\ \E readable \in BOOLEAN, boot \in BootSectors :
          root' = RootBoot(root, readable, boot)
    /\ UNCHANGED <<overflow_checks, vol, obj, last, loop, dir, img, ts>>

RootOpenFat ==
    /\ root.pc = "fat"
    /\ \E fat_readable \in BOOLEAN, root_cluster \in ReaderFirstClusters :
          root' = RootFat(root, fat_readable, root_cluster)
    /\ UNCHANGED <<overflow_checks, vol, obj, last, loop, dir, img, ts>>

RootOpenEntry ==
    /\ root.pc = "entries"
    /\ \E read_ok \in BOOLEAN, rec \in RootRecords, stream \in RootStreams :
          /\ root.entries_read >= MaxRootEntries => rec.kind = "Unused"
          /\ root' = RootEntry(root, read_ok, rec, stream)
    /\ UNCHANGED <<overflow_checks, vol, obj, last, loop, dir, img, ts>>

InitRoot ==
    /\ overflow_checks \in BOOLEAN
    /\ vol \in Volumes
    /\ obj = NoObject
    /\ last = NoCall
    /\ loop = NoLoop
    /\ root = [RootIdle EXCEPT !.pc = "start"]
    /\ dir = DirIdle
    /\ img = ImgIdle
    /\ ts = TsIdle

NextRoot ==
    \/ RootOpenBoot
    \/ RootOpenFat
    \/ RootOpenEntry

SpecRoot == InitRoot /\ [][NextRoot]_vars

\* Directory::open, in steps: the reader over the directory's stream, then
\* one record at a time
DirOpenReader ==
    /\ dir.pc = "start"
    /\ \E stream \in DirOwnStreams, n \in 0..MaxDirEntries :
          \E records \in [1..n -> DirContentRecords] :
             dir' = DirReader(dir, stream, records)
    /\ UNCHANGED <<overflow_checks, vol, obj, last, loop, root, img, ts>>

DirOpenEntry ==
    /\ dir.pc = "entries"
    /\ \E read_ok \in BOOLEAN : dir' = DirEntry(dir, read_ok)
    /\ UNCHANGED <<overflow_checks, vol, obj, last, loop, root, img, ts>>

InitDir ==
    /\ overflow_checks \in BOOLEAN
    /\ vol \in Volumes
    /\ obj = NoObject
    /\ last = NoCall
    /\ loop = NoLoop
    /\ root = RootIdle
    /\ dir = [DirIdle EXCEPT !.pc = "start"]
    /\ img = ImgIdle
    /\ ts = TsIdle

NextDir ==
    \/ DirOpenReader
    \/ DirOpenEntry

SpecDir == InitDir /\ [][NextDir]_vars

\* Image::open and, on the opened Image, Image::read called from several
\* threads: a call waits for the mutex, seeks, reads and returns
ImageOpen ==
    /\ img.pc = "closed"
    /\ \E position_ok \in BOOLEAN : img' = ImageOpened(img, position_ok)
    /\ UNCHANGED <<overflow_checks, vol, obj, last, loop, root, dir, ts>>

ImageCall(t) ==
    /\ img.pc = "open"
    /\ img.calls[t].pc = "idle"
    /\ img.made < MaxImageCalls
    /\ \E offset \in ImageOffsets, buf_len \in ImageBufLens :
          img' = [img EXCEPT !.made = img.made + 1,
                             !.calls[t] = [NoImageCall EXCEPT
                                             !.pc = "lock",
                                             !.offset = offset,
                                             !.buf_len = buf_len]]
    /\ UNCHANGED <<overflow_checks, vol, obj, last, loop, root, dir, ts>>

ImageLock(t) ==
    /\ img.calls[t].pc = "lock"
    /\ LockFree(img)
    /\ img' = ImageLocked(img, t)
    /\ UNCHANGED <<overflow_checks, vol, obj, last, loop, root, dir, ts>>

ImageSeek(t) ==
    /\ img.calls[t].pc = "seek"
    /\ \E seek_ok \in BOOLEAN : img' = ImageSought(img, t, seek_ok)
    /\ UNCHANGED <<overflow_checks, vol, obj, last, loop, root, dir, ts>>

ImageRead(t) ==
    /\ img.calls[t].pc = "read"
    /\ \E read_ok \in BOOLEAN,
          n \in FileReadCounts(img.pos, img.calls[t].buf_len) :
          img' = ImageReadDone(img, t, read_ok, n)
    /\ UNCHANGED <<overflow_checks, vol, obj, last, loop, root, dir, ts>>

InitImage ==
    /\ overflow_checks \in BOOLEAN
    /\ vol \in Volumes
    /\ obj = NoObject
    /\ last = NoCall
    /\ loop = NoLoop
    /\ root = RootIdle
    /\ dir = DirIdle
    /\ \E pos \in {0, 2}, clamps \in BOOLEAN :
          img = [ImgIdle EXCEPT !.pos = pos, !.clamps = clamps]
    /\ ts = TsIdle

NextImage ==
    \/ ImageOpen
    \/ \E t \in Threads : ImageCall(t)
    \/ \E t \in Threads : ImageLock(t)
    \/ \E t \in Threads : ImageSeek(t)
    \/ \E t \in Threads : ImageRead(t)

SpecImage == InitImage /\ [][NextImage]_vars

\* Timestamp::date and Timestamp::time on a timestamp read from an entry
TimestampDate ==
    /\ ~ts.date_done
    /\ ts' = [ts EXCEPT !.date_done = TRUE, !.date = Timestamp_date(ts)]
    /\ UNCHANGED <<overflow_checks, vol, obj, last, loop, root, dir, img>>

TimestampTime ==
    /\ ~ts.time_done
    /\ ts' = [ts EXCEPT !.time_done = TRUE, !.time = Timestamp_time(ts)]
    /\ UNCHANGED <<overflow_checks, vol, obj, last, loop, root, dir, img>>

InitTime ==
    /\ overflow_checks \in BOOLEAN
    /\ vol \in Volumes
    /\ obj = NoObject
    /\ last = NoCall
    /\ loop = NoLoop
    /\ root = RootIdle
    /\ dir = DirIdle
    /\ img = ImgIdle
    /\ \E hi \in TimestampHighHalves, lo \in TimestampLowHalves,
          ms \in MsIncrements :
          ts = [TsIdle EXCEPT !.timestamp = [hi |-> hi, lo |-> lo],
                              !.ms_increment = ms]

NextTime ==
    \/ TimestampDate
    \/ TimestampTime

SpecTime == InitTime /\ [][NextTime]_vars

(* ------------------------------ the claims ---------------------------- *)

\* the object is a File that File::new constructed
FileBuilt ==
    obj.made_by = "File::new" /\ obj.st \in {"ready", "panicked"}
\* the object holds a cluster reader that ClustersReader::new constructed
ReaderBuilt ==
    obj.st \in {"ready", "panicked"} /\ obj.file.kind \in {"Reader", "Cluster"}

TheReader == obj.file.rd
\* the no_fat_chain argument it was constructed with, absent meaning false
NoFatChain == obj.no_fat_chain.some /\ obj.no_fat_chain.v
L == obj.file.rd.data_length

\* reading a reader from offset 0 until read returns 0, with buffers of
\* buf_len bytes and a byte source that does not fail
RECURSIVE read_loop(_, _, _)
read_loop(rd, buf_len, acc) ==
    LET out == ClustersReader_read(rd, buf_len, FALSE) IN
    IF out.st # "ok" THEN [eof |-> FALSE, data |-> acc]
    ELSE IF out.ret = 0 THEN [eof |-> TRUE, data |-> acc]
    ELSE read_loop(out.rd, buf_len, acc \o out.bytes)

SequentialStream ==
    read_loop([TheReader EXCEPT !.offset = 0],
              2 * cluster_size(vol.params) + 1, <<>>)

\* C1: for every File that File::new constructed, the read loop from offset
\* 0 (read with a non-empty buffer until it returns 0) comes to its end
\* without a panic, and when it ends with read returning 0 the bytes
\* returned add up to file.len(), the stream's valid_data_length.
C1_ReadLoopTotalsLen ==
    FileBuilt =>
        /\ loop.st # "panic"
        /\ loop.st = "eof" => loop.total = obj.file.len

\* C2: on a cluster reader whose sequential read from offset 0 reaches EOF,
\* every read that returns n bytes from offset x returns the bytes [x, x+n)
\* of that sequential stream; this holds for the read that follows
\* seek(Start(x)), for every buffer length.
C2_SeekReadIsSlice ==
    (ReaderBuilt /\ obj.st = "ready" /\ SequentialStream.eof) =>
        /\ Len(SequentialStream.data) = L
        /\ (last.op = "read" /\ last.st = "ok") =>
              last.bytes = SubSeq(SequentialStream.data, last.pre + 1,
                                  last.pre + last.ret)
        /\ (last.op = "seek" /\ last.pos.whence = "Start") =>
              \A n \in BufLens, io_fail \in BOOLEAN :
                 LET out == ClustersReader_read(TheReader, n, io_fail) IN
                 out.st = "ok" =>
                    /\ out.bytes = SubSeq(SequentialStream.data,
                                          Min(last.pos.v, L) + 1,
                                          Min(last.pos.v, L) + out.ret)
                    /\ out.ret > 0 => TheReader.offset = last.pos.v

C2_Witness ==
    /\ ReaderBuilt /\ obj.st = "ready" /\ SequentialStream.eof
    /\ last.op = "seek" /\ last.pos = Start(3) /\ L = 12
    /\ ClustersReader_read(TheReader, 9, FALSE).ret = 1
    /\ TheReader.chain = <<2, 3, 5>>

\* the read_exact call the read contract prescribes at offset x
ContractRead(rd, x, buf_len) ==
    LET cs == cluster_size(vol.params)
        amount == Min(buf_len, Min(cs - (x % cs), rd.data_length - x))
    IN  [at |-> cluster_offset(vol.params, rd.chain[(x \div cs) + 1]).v
                   + (x % cs),
         n |-> amount]

\* C3: a read on a cluster reader returns 0 without touching the byte source
\* when the buffer is empty or offset == L; otherwise it does not panic, and
\* unless it reports an error it has performed exactly one read_exact of
\* amount = min(buf.len(), cluster_size - offset mod cluster_size, L - offset)
\* bytes at cluster_offset(chain[offset / cluster_size]) + offset mod
\* cluster_size, has advanced offset by amount >= 1 and returned amount,
\* within one cluster.
C3_ReadContract ==
    (ReaderBuilt /\ last.op = "read") =>
        IF last.buf_len = 0 \/ last.pre = L
        THEN /\ last.st = "ok" /\ last.ret = 0
             /\ last.reads = <<>>
             /\ TheReader.offset = last.pre
        ELSE /\ last.st # "panic"
             /\ last.st = "ok" =>
                   LET cs == cluster_size(vol.params)
                       want == ContractRead(TheReader, last.pre, last.buf_len)
                   IN  /\ last.reads = <<want>>
                       /\ last.ret = want.n
                       /\ want.n >= 1
                       /\ TheReader.offset = last.pre + want.n
                       /\ last.pre \div cs = (last.pre + want.n - 1) \div cs

\* C4: a constructed cluster reader starts at offset 0, its offset stays
\* within [0, L] whatever calls are made on it, whether they succeed, fail
\* or panic, and L stays the data_length fixed at construction.
C4_OffsetWithinLength ==
    ReaderBuilt =>
        /\ 0 <= TheReader.offset /\ TheReader.offset <= L
        /\ L = obj.L0
        /\ last.op = "new" => TheReader.offset = 0

C4_Witness ==
    /\ ReaderBuilt /\ obj.file.kind = "Reader"
    /\ last.op = "seek" /\ last.pos = Start(U64Max) /\ last.st = "ok"
    /\ L = 13 /\ TheReader.offset = 13

\* C5: on every File, seek(Start(x)) returns min(x, file.len()) and a
\* stream_position() made next returns the same value; seek(End(0)) returns
\* file.len(); seek(Current(0)) returns the position and leaves the file as
\* it is, from every state, so also when it is repeated.
C5_FileSeekLaws ==
    FileBuilt =>
        /\ (last.op = "seek" /\ last.pos.whence = "Start") =>
              /\ last.st = "ok"
              /\ last.ret = Min(last.pos.v, obj.file.len)
              /\ File_stream_position(obj.file).ret = last.ret
        /\ (last.op = "seek" /\ last.pos = End(0)) =>
              last.st = "ok" /\ last.ret = obj.file.len
        /\ (last.op = "seek" /\ last.pos = Current(0)) =>
              /\ last.st = "ok"
              /\ last.ret = last.pre
              /\ File_stream_position(obj.file).ret = last.pre
        /\ obj.st = "ready" =>
              LET again == File_seek(obj.file, Current(0)) IN
              /\ again.st = "ok"
              /\ again.ret = File_stream_position(obj.file).ret
              /\ again.file = obj.file

C5_Witness ==
    /\ FileBuilt /\ obj.st = "ready" /\ obj.file.kind = "Cluster"
    /\ last.op = "seek" /\ last.pos = Start(9) /\ last.ret = 5
    /\ obj.file.len = 5

\* C6: on a cluster reader, seek(End(v)) with v < 0 and |v| > L, and
\* seek(Current(v)) with v < 0 and |v| > offset, fail with InvalidInput and
\* leave offset as it was; within range they set offset to L - |v| and to
\* offset - |v|; seek(End(v)) with v >= 0 sets offset to L.
C6_BackwardSeek ==
    (ReaderBuilt /\ last.op = "seek") =>
        LET v == last.pos.v
            failed == /\ last.st = "err" /\ last.e = "InvalidInput"
                      /\ TheReader.offset = last.pre
            moved(to) == /\ last.st = "ok" /\ last.ret = to
                         /\ TheReader.offset = to
        IN  /\ (last.pos.whence = "End" /\ v >= 0) => moved(L)
            /\ (last.pos.whence = "End" /\ v < 0) =>
                  IF 0 - v > L THEN failed ELSE moved(L + v)
            /\ (last.pos.whence = "Current" /\ v < 0) =>
                  IF 0 - v > last.pre THEN failed ELSE moved(last.pre + v)

C6_Witness ==
    /\ ReaderBuilt /\ obj.file.kind = "Reader"
    /\ last.op = "seek" /\ last.pos = Current(0 - 6) /\ last.st = "err"
    /\ last.pre = 3 /\ TheReader.offset = 3

\* C7: on a cluster reader, seek(Current(v)) with v >= 0 succeeds and sets
\* offset to min(offset + v, L), the sum taken without wrapping, for every
\* offset in [0, L] and every v up to the largest signed value.
C7_ForwardSeekSaturates ==
    (ReaderBuilt /\ last.op = "seek" /\ last.pos.whence = "Current"
        /\ last.pos.v >= 0) =>
        /\ last.st = "ok"
        /\ TheReader.offset = Min(last.pre + last.pos.v, L)
        /\ last.ret = TheReader.offset

\* C8: a File made from a stream with first_cluster == 0 holds the empty
\* reader and no cluster reader: every read returns 0, every seek and rewind
\* reports 0 and leaves the position at 0, and no call reads the byte source.
C8_EmptyFile ==
    (obj.made_by = "File::new" /\ obj.first_cluster = 0) =>
        /\ obj.st = "ready"
        /\ obj.file.kind = "Empty" /\ obj.file.rd = NoReader
        /\ last.st = "ok" /\ last.ret = 0
        /\ last.reads = <<>> /\ last.bytes = <<>>
        /\ File_stream_position(obj.file).ret = 0

C8_Witness ==
    /\ obj.made_by = "File::new" /\ obj.first_cluster = 0
    /\ last.op = "read" /\ last.buf_len = 9


\* the boot sector conditions in the words of the specification, and the
\* error of the first one that fails
BootAccepted(b) ==
    /\ b.file_system_name = "EXFAT   "
    /\ b.must_be_zero = 0
    /\ b.bytes_per_sector_shift \in 9..12
    /\ b.sectors_per_cluster_shift <= 25 - b.bytes_per_sector_shift
    /\ b.number_of_fats \in {1, 2}
    /\ ~(b.volume_flags % 2 = 1 /\ b.number_of_fats = 1)

FirstFailingCheck(b) ==
    IF b.file_system_name # "EXFAT   " \/ b.must_be_zero # 0 THEN "NotExFat"
    ELSE IF b.bytes_per_sector_shift \notin 9..12
    THEN "InvalidBytesPerSectorShift"
    ELSE IF b.sectors_per_cluster_shift > 25 - b.bytes_per_sector_shift
    THEN "InvalidSectorsPerClusterShift"
    ELSE "InvalidNumberOfFats"

\* C9: once the boot sector has been read, Root::open goes on to load the
\* FAT only if the boot sector has the exFAT name, zero bytes in [11..64],
\* bytes_per_sector_shift in [9,12], sectors_per_cluster_shift at most
\* 25 - bytes_per_sector_shift, one or two FATs, and an active FAT that
\* exists; otherwise it has failed with the error of the first failing
\* check and has read neither the FAT nor the root directory.
C9_BootChecks ==
    root.boot # NoBoot =>
        IF BootAccepted(root.boot)
        THEN root.pc = "fat" \/ root.reads[2] = "fat"
        ELSE /\ root.pc = "done"
             /\ root.result = FirstFailingCheck(root.boot)
             /\ root.reads = <<"boot">>

C9_Witness ==
    /\ root.pc = "done"
    /\ root.boot.number_of_fats = 1
    /\ root.boot.volume_flags % 2 = 1
    /\ root.result = "InvalidNumberOfFats"

\* the AllocationBitmap entries a volume with that many FATs must have
ExpectedBitmaps(number_of_fats) ==
    IF number_of_fats = 2 THEN <<0, 1>> ELSE <<0>>

\* C10: Root::open succeeds only if the root directory holds exactly one
\* AllocationBitmap entry with index bit 0 when there is one FAT, and
\* exactly two, index bit 0 then index bit 1, when there are two.
C10_BitmapCount ==
    (root.pc = "done" /\ root.result = "Ok") =>
        root.bitmaps_seen = ExpectedBitmaps(root.boot.number_of_fats)


\* the items Directory::open lists for the records before position n
RECURSIVE ListedItems(_, _)
ListedItems(records, n) ==
    IF n = 0 THEN <<>>
    ELSE Append(ListedItems(records, n - 1),
                IF records[n].set = "dir" THEN "Directory" ELSE "File")

\* the outcomes of Directory::open that the type of a record decides
DirByRecord ==
    /\ dir.pc = "done"
    /\ dir.result \in {"Ok", "NotPrimaryEntry", "NotFileEntry"}

\* C11: Directory::open examines the records in order; at the first one
\* whose in-use bit is clear it returns the items collected so far and looks
\* at no later record; an in-use secondary fails with NotPrimaryEntry and an
\* in-use primary that is not critical type_code 5 with NotFileEntry, both
\* with the record's index; a failure returns no listing.
C11_DirectoryScan ==
    /\ (dir.pc = "done" /\ dir.result # "Ok") => ~dir.has_listing
    /\ dir.pc \in {"entries", "done"} =>
          \A j \in 1..dir.examined :
             LET ty == dir.records[j].ty
                 isfile == ty.in_use /\ ty.category = "primary"
                              /\ ty.importance = "critical"
                              /\ ty.type_code = 5
             IN  IF \/ j < dir.examined
                    \/ dir.pc = "entries"
                    \/ dir.result = "ReadEntryFailed"
                 THEN isfile
                 ELSE /\ ~ty.in_use =>
                            /\ dir.result = "Ok" /\ dir.has_listing
                            /\ dir.listing = ListedItems(dir.records, j - 1)
                      /\ (ty.in_use /\ ty.category = "secondary") =>
                            /\ dir.result = "NotPrimaryEntry"
                            /\ dir.err_index = j - 1
                      /\ (ty.in_use /\ ty.category = "primary" /\ ~isfile) =>
                            /\ dir.result = "NotFileEntry"
                            /\ dir.err_index = j - 1
                      /\ isfile => ~DirByRecord

C11_Witness ==
    /\ dir.pc = "done" /\ dir.result = "Ok"
    /\ dir.examined = 2 /\ Len(dir.records) = 3
    /\ dir.records[3].ty.in_use
    /\ dir.listing = <<"File">>


\* the calls of Image::read that are between lock and return
InCriticalSection == { t \in Threads : img.calls[t].pc \in {"seek", "read"} }

\* C12: the calls of Image::read from several threads take the mutex one at
\* a time, and every call that returns Ok has read the file at the offset it
\* was given: bytes it returns start there, and it returns 0 only for an
\* empty buffer or an offset at or past the end of the file.
C12_ReadsAtOwnOffset ==
    /\ Cardinality(InCriticalSection) <= 1
    /\ \A t \in Threads :
          LET c == img.calls[t] IN
          (c.pc = "idle" /\ c.st = "ok") =>
              /\ c.ret > 0 => c.at = c.offset
              /\ c.ret = 0 => (c.buf_len = 0 \/ c.offset >= ImageLen)

\* C20: whenever no thread holds the mutex of an opened Image, the position
\* cached next to the file is the position the file is at.
C20_CachedPositionIsActual ==
    (img.pc = "open" /\ img.holder = 0) => img.cached = img.pos


\* bit k of a 32-bit timestamp, and the number its bits from..to spell
TimestampBit(timestamp, k) ==
    IF k >= 16 THEN (timestamp.hi \div (2 ^ (k - 16))) % 2
    ELSE (timestamp.lo \div (2 ^ k)) % 2

RECURSIVE BitField(_, _, _)
BitField(timestamp, from, to) ==
    IF from > to THEN 0
    ELSE TimestampBit(timestamp, from)
            + 2 * BitField(timestamp, from + 1, to)

\* C13: for every timestamp and ms_increment, date() gives day = bits
\* 16..20, month = bits 21..24 and year = 1980 + bits 25..31, and time()
\* gives hour = bits 11..15, minute = bits 5..10 and second =
\* double_seconds * 2 + ms_increment / 1000, computed without overflow of
\* the 8-bit second; the second is in 0..59 when double_seconds <= 29.
C13_TimestampDecoding ==
    /\ ts.date_done =>
          /\ ts.date.day = BitField(ts.timestamp, 16, 20)
          /\ ts.date.month = BitField(ts.timestamp, 21, 24)
          /\ ts.date.year = 1980 + BitField(ts.timestamp, 25, 31)
    /\ ts.time_done =>
          LET double_seconds == BitField(ts.timestamp, 0, 4) IN
          /\ ts.time.st = "ok"
          /\ ts.time.hour = BitField(ts.timestamp, 11, 15)
          /\ ts.time.minute = BitField(ts.timestamp, 5, 10)
          /\ ts.time.second
                = double_seconds * 2 + (ts.ms_increment \div 1000)
          /\ double_seconds * 2 + (ts.ms_increment \div 1000) < 256
          /\ double_seconds <= 29 => ts.time.second \in 0..59

C13_Witness ==
    /\ ts.date_done /\ ts.time_done
    /\ ts.timestamp = [hi |-> 65535, lo |-> 65535] /\ ts.ms_increment = 255
    /\ ts.time.second = 62 /\ ts.date.year = 2107 /\ ts.date.day = 31


\* C14: every cluster index in the chain of a constructed cluster reader is
\* within 2..cluster_count + 1, for a chain walked from the FAT and for the
\* contiguous range of a no_fat_chain stream.
C14_ChainWithinHeap ==
    ReaderBuilt =>
        \A k \in 1..Len(TheReader.chain) :
           /\ 2 <= TheReader.chain[k]
           /\ TheReader.chain[k] <= vol.params.cluster_count + 1


\* C15: whatever the FAT holds, the walk of a chain ends after at most
\* cluster_count + 2 clusters, so the construction of a File or of a cluster
\* reader always returns.
C15_ChainWalkTerminates ==
    /\ obj.st # "hung"
    /\ (ReaderBuilt /\ ~NoFatChain) =>
          Len(TheReader.chain) <= vol.params.cluster_count + 2


\* the object is what ClustersReader::new has just returned, or its attempt
\* that did not return
JustConstructed ==
    last.op = "new" /\ obj.made_by = "ClustersReader::new"

\* C16: ClustersReader::new fails with InvalidFirstCluster when
\* first_cluster < 2 or the chain walked from the FAT is empty, with
\* InvalidDataLength when no_fat_chain is set and data_length is absent or
\* 0, or when it is not set and data_length > chain.len() * cluster_size;
\* in every other case it succeeds with offset 0 and L = data_length if
\* given, else chain.len() * cluster_size.
C16_NewOutcome ==
    JustConstructed =>
        LET cs == cluster_size(vol.params)
            given == obj.data_length
            failed(kind) == last.st = "err" /\ last.e = kind
            built(len) == /\ last.st = "ok"
                          /\ TheReader.offset = 0
                          /\ L = len
        IN  IF obj.first_cluster < 2 THEN failed("InvalidFirstCluster")
            ELSE IF NoFatChain
            THEN IF ~given.some \/ given.v = 0
                 THEN failed("InvalidDataLength")
                 ELSE built(given.v)
            ELSE LET walk == get_cluster_chain(vol.entries,
                                               obj.first_cluster)
                 IN  IF Len(walk.chain) = 0 /\ ~walk.diverges
                     THEN failed("InvalidFirstCluster")
                     ELSE IF given.some /\ given.v > Len(walk.chain) * cs
                                /\ ~walk.diverges
                     THEN failed("InvalidDataLength")
                     ELSE built(IF given.some THEN given.v
                                ELSE Len(TheReader.chain) * cs)

\* C17: a constructed cluster reader has chain.len() * cluster_size >= L,
\* and with no_fat_chain the chain has ceil(data_length / cluster_size)
\* clusters for every data_length and first_cluster: the construction
\* neither panics nor wraps on data_length + cluster_size - 1 or on
\* first_cluster + count.
C17_ChainCoversLength ==
    LET cs == cluster_size(vol.params) IN
    /\ ReaderBuilt => Len(TheReader.chain) * cs >= L
    /\ (JustConstructed /\ NoFatChain /\ obj.first_cluster >= 2
          /\ obj.data_length.some /\ obj.data_length.v > 0) =>
          /\ last.st = "ok"
          /\ Len(TheReader.chain) = (obj.data_length.v + cs - 1) \div cs


\* C18: in every state of a constructed cluster reader, after any reads,
\* seeks and rewinds, offset / cluster_size is an index of the chain, so
\* cluster() does not panic; this includes offset == L at the end of a
\* stream whose L is a multiple of cluster_size.
C18_ClusterIndexValid ==
    /\ (ReaderBuilt /\ obj.st = "ready") =>
          TheReader.offset \div cluster_size(vol.params)
              < Len(TheReader.chain)
    /\ (ReaderBuilt /\ last.op = "cluster") => last.st = "ok"

\* C19: a read of a cluster reader that fails, on a cluster that is not
\* available or on a read_exact that fails, leaves offset, chain and L as
\* they were, so the same read made again addresses the same position.
C19_FailedReadFrame ==
    [][(last'.op = "read" /\ last'.st = "err" /\ obj.st = "ready") =>
          /\ obj'.file.rd = obj.file.rd
          /\ obj'.st = "ready"]_vars

C19_Witness ==
    /\ ReaderBuilt /\ last.op = "read" /\ last.st = "err"
    /\ last.e = "ClusterUnavailable"
    /\ TheReader.offset = last.pre /\ last.pre = 8 /\ last.buf_len = 3

\* an allocated contiguous stream that holds room but no valid data yet
ZeroValidLengthStream(s) ==
    /\ s.first_cluster >= 2
    /\ s.no_fat_chain
    /\ s.data_length > 0
    /\ s.valid_data_length = 0

\* a record of the directory that Directory::open hands to File::new
ReachesFileNew(rec) ==
    /\ is_regular(rec.ty)
    /\ rec.ty.category = "primary"
    /\ IsFileEntryType(rec.ty)
    /\ rec.set = "file"

\* C21: File::new for a stream with first_cluster >= 2, the NoFatChain flag,
\* data_length > 0 and valid_data_length == 0 fails with
\* CreateClustersReaderFailed caused by InvalidDataLength, since the reader
\* is sized with valid_data_length; the Directory::open that met the entry
\* (and Root::open, given the same entry) ends in CreateFileObjectFailed
\* and returns no listing.
C21_ZeroValidLengthFails ==
    \A i \in 1..dir.examined :
        LET rec == dir.records[i]
            f == File_new(rec.stream)
            inRoot == RootFile(root, [kind |-> "FileEntry", byte1 |-> 2,
                                      alloc_ok |-> TRUE], rec.stream)
        IN  (ReachesFileNew(rec) /\ ZeroValidLengthStream(rec.stream)) =>
              /\ f.st = "err"
              /\ f.e = "CreateClustersReaderFailed"
              /\ f.cause = "InvalidDataLength"
              /\ f.file = NoFile
              /\ dir.pc = "done"
              /\ dir.result = "CreateFileObjectFailed"
              /\ dir.err_index = i - 1
              /\ ~dir.has_listing
              /\ dir.listing = <<>>
              /\ inRoot.pc = "done"
              /\ inRoot.result = "CreateFileObjectFailed"

C21_Witness ==
    /\ dir.pc = "done"
    /\ dir.examined >= 2
    /\ Len(dir.items) = dir.examined - 1
    /\ ReachesFileNew(dir.records[dir.examined])
    /\ ZeroValidLengthStream(dir.records[dir.examined].stream)
    /\ dir.result = "CreateFileObjectFailed"

====
